---- MODULE Spec2Model ----
(***************************************************************************)
(* Model of the TransformerOps sources: the span decoder and the           *)
(* span-task runInference of src/unnamed/part_001, the question-answering  *)
(* singleton (getInstance / init), the input assembler and the older       *)
(* runInference of src/TransformerOps.ts, and the classification variant   *)
(* of src/unnamed/part_000.                                                *)
(*                                                                         *)
(* JavaScript arrays are TLA+ sequences; a JavaScript index i is the       *)
(* sequence position i + 1.  Finite numbers are integers >= 0; the values  *)
(* -Infinity, undefined and NaN are the three negative markers below.      *)
(***************************************************************************)
EXTENDS Integers, Sequences, FiniteSets, TLC

\* ------------------------------------------------------------ bounds
MaxLen == 2             \* longest probability vector handed to decodeSpans
MaxProb == 1            \* probabilities are drawn from 0..MaxProb
MaxTopk == 3            \* topk is drawn from 1..MaxTopk
MaxAnswerLen == 2       \* maxAnswerLength is drawn from 0..MaxAnswerLen
MaxQuestionTokens == 1  \* the question tokenizes to at most this many ids
MaxContextTokens == 1   \* the context's tokenization is cut to this many ids
HighLogit == 2          \* the model's logits are drawn from 0..HighLogit
NumCallers == 3         \* callers of getInstance, each calling once
MaxWords == 3           \* tokenizeQuestionAndContext: tokens of each text
MaxMaxLength == 6       \* tokenizeQuestionAndContext: options.maxLength
MaxLegacyContextTokens == 5 \* older runInference: tokens of its context
MaxBatch == 1           \* older runInference: start_logits.dims[0]
MaxClassLogits == 6     \* classification: length of the logits output

\* ------------------------------------------------- JavaScript values
NegInf == -1            \* -Infinity
Undefined == -2         \* undefined (a read past the end of an array)
NaN == -3               \* NaN

IsNumber(x) == x >= 0

Min(a, b) == IF a < b THEN a ELSE b

\* arr[i] for a JavaScript index i
At(arr, i) == IF i >= 0 /\ i < Len(arr) THEN arr[i + 1] ELSE Undefined

\* a > b; any comparison with undefined or NaN is false
JsGt(a, b) == a # Undefined /\ a # NaN /\ b # Undefined /\ b # NaN /\ a > b

\* Math.floor(idx / len) and idx % len.  idx is negative only as the -1 that
\* indexOf gives on an empty array, and then len = 0: -1 / 0 is -Infinity and
\* -1 % 0 is NaN.
FloorDiv(idx, len) == IF len = 0 THEN NegInf ELSE idx \div len
Rem(idx, len) == IF len = 0 THEN NaN ELSE idx % len

\* start * len + end; NaN as soon as an operand is not a finite number
\* (-Infinity * 0 and undefined * len are NaN)
FlatIndex(start, len, end) ==
    IF IsNumber(start) /\ IsNumber(end) THEN start * len + end ELSE NaN

\* new Float32Array([...]) stores undefined as NaN
ToFloat32(x) == IF x = Undefined THEN NaN ELSE x

\* Math.max(...arr); -Infinity for no arguments
MathMax(arr) ==
    IF Len(arr) = 0 THEN NegInf
    ELSE CHOOSE m \in {arr[k] : k \in 1..Len(arr)} :
             \A k \in 1..Len(arr) : arr[k] <= m

LastIndexOf(arr, v) ==
    IF \E k \in 1..Len(arr) : arr[k] = v
    THEN (CHOOSE k \in 1..Len(arr) :
              arr[k] = v /\ \A j \in (k + 1)..Len(arr) : arr[j] # v) - 1
    ELSE -1

\* arr.indexOf(v): the first JavaScript index holding v, or -1
IndexOf(arr, v) ==
    IF \E k \in 1..Len(arr) : arr[k] = v
    THEN (CHOOSE k \in 1..Len(arr) :
              arr[k] = v /\ \A j \in 1..(k - 1) : arr[j] # v) - 1
    ELSE -1

\* Array.from(arr.keys()).sort((a, b) => arr[b] - arr[a]): the JavaScript
\* indices by descending value; the sort is stable, and -Infinity - -Infinity
\* is NaN, which sort reads as "equal"
SortKeysDescending(arr) ==
    LET Before(a, b) == arr[a] > arr[b] \/ (arr[a] = arr[b] /\ a < b)
        Rank(a) == Cardinality({b \in 1..Len(arr) : Before(b, a)})
    IN  [r \in 1..Len(arr) |->
            (CHOOSE a \in 1..Len(arr) : Rank(a) = r - 1) - 1]

\* -------------------------------------------------------- decodeSpans
\* the outer product, flattened row-major: outer[i * n + j] = start[i] * end[j]
OuterProduct(startLogits, endLogits) ==
    [k \in 1..(Len(startLogits) * Len(endLogits)) |->
        startLogits[((k - 1) \div Len(endLogits)) + 1]
            * endLogits[((k - 1) % Len(endLogits)) + 1]]

IsValidPairStrict(startIdx, endIdx, maxAnswerLength, undesiredTokens) ==
    /\ endIdx > startIdx
    /\ endIdx - startIdx < maxAnswerLength
    /\ At(undesiredTokens, startIdx) = 0
    /\ At(undesiredTokens, endIdx) = 0

\* the validity test of one (start, end) pair
IsValidPair(startIdx, endIdx, maxAnswerLength, undesiredTokens) ==
    /\ endIdx >= startIdx
    /\ endIdx - startIdx < maxAnswerLength
    /\ At(undesiredTokens, startIdx) = 0
    /\ At(undesiredTokens, endIdx) = 0

Candidates(outer, endLen, maxAnswerLength, undesiredTokens) ==
    [k \in 1..Len(outer) |->
        IF IsValidPair((k - 1) \div endLen, (k - 1) % endLen,
                       maxAnswerLength, undesiredTokens)
        THEN outer[k] ELSE NegInf]

\* the indices of the top-k candidates
IdxSort(scoresFlat, topk) ==
    IF topk = 1
    THEN <<IndexOf(scoresFlat, MathMax(scoresFlat))>>
    ELSE SubSeq(SortKeysDescending(scoresFlat), 1, Min(topk, Len(scoresFlat)))

SpanSurvivesGe(score) == score # Undefined /\ score # NaN /\ score >= NegInf

\* the post-filter's test: candidates[...] > -Infinity
SpanSurvives(score) == JsGt(score, NegInf)

\* lines 133-143, given the candidates and the sorted indices
SelectSpans(candidates, idxSort, endLen) ==
    LET starts == [k \in 1..Len(idxSort) |-> FloorDiv(idxSort[k], endLen)]
        ends == [k \in 1..Len(idxSort) |-> Rem(idxSort[k], endLen)]
        \* starts.filter(...) keeps the start VALUES of the surviving spans
        kept == SelectSeq([k \in 1..Len(idxSort) |-> k - 1], LAMBDA idx :
            SpanSurvives(At(candidates,
                FlatIndex(At(starts, idx), endLen, At(ends, idx)))))
        validSpans == [j \in 1..Len(kept) |-> At(starts, kept[j])]
        \* ... which are then used as indices into starts and ends
        filteredStarts == [j \in 1..Len(kept) |-> At(starts, validSpans[j])]
        filteredEnds == [j \in 1..Len(kept) |-> At(ends, validSpans[j])]
        scores == [j \in 1..Len(kept) |->
            ToFloat32(At(candidates,
                FlatIndex(filteredStarts[j], endLen, filteredEnds[j])))]
    IN  [starts |-> filteredStarts \o <<>>, ends |-> filteredEnds \o <<>>,
         scores |-> scores \o <<>>]

\* (each stage is bound as the element of a one-element set, which has it
\* computed once)
decodeSpans(startLogits, endLogits, topk, maxAnswerLength, undesiredTokens) ==
    CHOOSE result \in
        {SelectSpans(c[1], c[2], Len(endLogits)) :
            c \in {<<candidates, IdxSort(candidates, topk)>> :
                candidates \in
                    {Candidates(OuterProduct(startLogits, endLogits),
                                Len(endLogits), maxAnswerLength,
                                undesiredTokens) \o <<>>}}} : TRUE

\* ------------------------------------------ span task: runInference
CLS_INDEX == 101
SEP_INDEX == 102
MaskedLogit == -10000
RunTopk == 1
RunMaxAnswerLength == 30

\* the ids the tokenizer gives the k-th word of the question and of the
\* context; the tokenizer, an external collaborator, gives ordinary text
\* ordinary ids
QuestionToken(k) == 200 + k
ContextToken(k) == 300 + k
TokenizeQuestion(words) == [k \in 1..words |-> QuestionToken(k)]
TokenizeContext(words) == [k \in 1..words |-> ContextToken(k)]

\* tokenizer.decode(ids): the text that spells the ids
Decode(ids) == [kind |-> "text", ids |-> ids]
Null == [kind |-> "null", ids |-> <<>>]
UndefinedResult == [kind |-> "undefined", ids |-> <<>>]
Pending == [kind |-> "pending", ids |-> <<>>]
Rejected == [kind |-> "rejected", ids |-> <<>>]
\* the outcome of a try body that threw (or awaited a rejected promise)
Thrown == [kind |-> "thrown", ids |-> <<>>]

CatchSpanMissing(outcome) == IF outcome = Thrown THEN Rejected ELSE outcome

\* try { ... } catch (error) { console.error(...); return null; }
CatchSpan(outcome) == IF outcome = Thrown THEN Null ELSE outcome

\* [CLS, ...tokenizedQuestion, SEP, ...tokenizedContext, SEP]
InputTokens(tokenizedQuestion, tokenizedContext) ==
    <<CLS_INDEX>> \o tokenizedQuestion \o <<SEP_INDEX>>
        \o tokenizedContext \o <<SEP_INDEX>>

\* the mask of runInference: CLS and the two SEP positions
UndesiredTokens(questionLen, contextLen) ==
    [k \in 1..(questionLen + contextLen + 3) |->
        IF k - 1 = 0 \/ k - 1 = questionLen + 1
               \/ k - 1 = questionLen + contextLen + 2
        THEN 1 ELSE 0]

maskUndesiredTokens(logits, undesiredTokens) ==
    [k \in 1..Len(logits) |->
        IF At(undesiredTokens, k - 1) = 1 THEN MaskedLogit ELSE logits[k]] \o <<>>

\* Math.exp(d) for d <= 0 in thousandths, round(1000 * e^d); in float32 the
\* masked logit's exponential, e^(-10000 - max), is exactly 0
ExpFixed(d) ==
    CASE d = 0 -> 1000
      [] d = -1 -> 368
      [] d = -2 -> 135
      [] d = -3 -> 50
      [] d = -4 -> 18
      [] d = -5 -> 7
      [] d = -6 -> 2
      [] d = -7 -> 1
      [] OTHER -> 0

\* the greatest element of a non-empty array of logits (which may be negative)
MaxLogit(logits) ==
    CHOOSE m \in {logits[k] : k \in 1..Len(logits)} :
        \A k \in 1..Len(logits) : logits[k] <= m

SumSeq(arr) ==
    LET Sum[k \in 0..Len(arr)] == IF k = 0 THEN 0 ELSE Sum[k - 1] + arr[k]
    IN  Sum[Len(arr)]

\* softmax of a non-empty array: probabilities in thousandths
softmax(logits) ==
    CHOOSE probs \in
        {[k \in 1..Len(exps) |-> (exps[k] * 1000) \div SumSeq(exps)] \o <<>> :
            exps \in {[k \in 1..Len(logits) |->
                          ExpFixed(logits[k] - MaxLogit(logits))] \o <<>>}} : TRUE

\* ToIntegerOrInfinity of a slice bound: undefined and NaN are 0
SliceBound(x) == IF IsNumber(x) THEN x ELSE 0

\* x + 1: NaN for undefined
PlusOne(x) == IF IsNumber(x) THEN x + 1 ELSE NaN

\* arr.slice(start, end)
Slice(arr, start, end) ==
    SubSeq(arr, SliceBound(start) + 1, Min(SliceBound(end), Len(arr)))

\* answerTokens.filter(token => token !== SEP_INDEX && token !== CLS_INDEX)
StripMarkers(tokens) ==
    SelectSeq(tokens, LAMBDA t : t # SEP_INDEX /\ t # CLS_INDEX)

\* the test of line 207: no span was found
NoAnswerFound(bestSpan) == Len(bestSpan.starts) = 0 \/ Len(bestSpan.ends) = 0

\* the model's output: a logit vector with its peak at position p1 and its
\* runner-up at p2
PeakLogits(n, p1, p2) ==
    [k \in 1..n |-> IF k = p1 THEN HighLogit
                    ELSE IF k = p2 THEN HighLogit - 1 ELSE 0]

\* what the code after `await onnxModel.run` computes, given the two logit
\* vectors and whether tokenizer.decode throws
\* lines 204-224, given the probabilities and the mask
DecodeAndResolve(inputTokens, startProbs, endProbs, undesiredTokens, decodeThrows) ==
    CHOOSE out \in
        {LET answerTokens == Slice(inputTokens, At(bestSpan.starts, 0),
                                   PlusOne(At(bestSpan.ends, 0)))
             ids == StripMarkers(answerTokens)
         IN  [startProbs |-> startProbs, endProbs |-> endProbs,
              undesiredTokens |-> undesiredTokens, bestSpan |-> bestSpan,
              decodeCalled |-> ~NoAnswerFound(bestSpan),
              decodedIds |-> IF NoAnswerFound(bestSpan) THEN <<>> ELSE ids,
              result |-> IF NoAnswerFound(bestSpan) THEN Null
                         ELSE IF decodeThrows THEN Thrown ELSE Decode(ids)] :
            bestSpan \in {decodeSpans(startProbs, endProbs, RunTopk,
                                      RunMaxAnswerLength, undesiredTokens)}} : TRUE

\* what the code after `await onnxModel.run` computes, given the two logit
\* vectors and whether tokenizer.decode throws
PostProcess(inputTokens, questionLen, contextLen, startLogits, endLogits, decodeThrows) ==
    CHOOSE out \in
        {DecodeAndResolve(inputTokens, p[1], p[2], p[3], decodeThrows) :
            p \in {<<softmax(maskUndesiredTokens(startLogits, mask)),
                     softmax(maskUndesiredTokens(endLogits, mask)), mask>> :
                mask \in {UndesiredTokens(questionLen, contextLen) \o <<>>}}} : TRUE

VARIABLES ds, ri, qa, cs, tk, lg, cl

vars == <<ds, ri, qa, cs, tk, lg, cl>>

Callers == 1..NumCallers


NoSpans == [starts |-> <<>>, ends |-> <<>>, scores |-> <<>>]

InitDecode ==
    ds = [called |-> FALSE, startProbs |-> <<>>, endProbs |-> <<>>, topk |-> 1,
          maxAnswerLength |-> 0, undesiredTokens |-> <<>>, result |-> NoSpans]

RiIdle ==
    [pc |-> "idle", questionLen |-> 0, contextLen |-> 0, inputTokens |-> <<>>,
     startLogits |-> <<>>, endLogits |-> <<>>, startProbs |-> <<>>,
     endProbs |-> <<>>, undesiredTokens |-> <<>>, bestSpan |-> NoSpans,
     decoderRan |-> FALSE, decodeCalled |-> FALSE, decodedIds |-> <<>>,
     failure |-> "none", result |-> Pending]

InitInfer == ri = RiIdle

\* one call of decodeSpans on equal-length inputs
DecodeSpansCall ==
    /\ ~ds.called
    /\ ri.pc = "idle"
    /\ \E n \in 0..MaxLen :
      \E startProbs \in [1..n -> 0..MaxProb], endProbs \in [1..n -> 0..MaxProb],
         undesiredTokens \in [1..n -> {0, 1}],
         topk \in 1..MaxTopk, maxAnswerLength \in 0..MaxAnswerLen :
        ds' = [called |-> TRUE, startProbs |-> startProbs, endProbs |-> endProbs,
               topk |-> topk, maxAnswerLength |-> maxAnswerLength,
               undesiredTokens |-> undesiredTokens,
               result |-> decodeSpans(startProbs, endProbs, topk,
                                      maxAnswerLength, undesiredTokens)]
    /\ UNCHANGED <<ri, qa, cs, tk, lg, cl>>

\* runInference(question) up to `await createModelInput(inputTokens)`
RunInference ==
    /\ ri.pc = "idle"
    /\ ~ds.called /\ lg.pc = "idle" /\ cl.pc = "idle"
    /\ \E questionLen \in 0..MaxQuestionTokens, contextLen \in 0..MaxContextTokens,
          tokenizeThrows \in BOOLEAN :
        ri' = IF tokenizeThrows
              THEN [ri EXCEPT !.pc = "done", !.failure = "tokenize",
                              !.result = CatchSpan(Thrown)]
              ELSE [ri EXCEPT !.pc = "createModelInput",
                              !.questionLen = questionLen,
                              !.contextLen = contextLen,
                              !.inputTokens = InputTokens(
                                  TokenizeQuestion(questionLen),
                                  TokenizeContext(contextLen))]
    /\ UNCHANGED <<ds, qa, cs, tk, lg, cl>>

\* createModelInput settles; on success the code goes on to
\* `await this.onnxModel.run(onnxInput)`
CreateModelInputSettle ==
    /\ ri.pc = "createModelInput"
    /\ \E rejects \in BOOLEAN :
        ri' = IF rejects
              THEN [ri EXCEPT !.pc = "done", !.failure = "createModelInput",
                              !.result = CatchSpan(Thrown)]
              ELSE [ri EXCEPT !.pc = "run"]
    /\ UNCHANGED <<ds, qa, cs, tk, lg, cl>>

\* onnxModel.run settles: it rejects, or its response lacks an output tensor
\* (reading .data of undefined throws), or it gives the two logit vectors and
\* the rest of the try body runs
ModelRunSettle ==
    /\ ri.pc = "run"
    /\ \/ \E failure \in {"run", "no tensor"} :
            ri' = [ri EXCEPT !.pc = "done", !.failure = failure,
                             !.result = CatchSpan(Thrown)]
       \/ \E s1, s2, e1, e2 \in 1..Len(ri.inputTokens), decodeThrows \in BOOLEAN :
            LET n == Len(ri.inputTokens)
                startLogits == PeakLogits(n, s1, s2)
                endLogits == PeakLogits(n, e1, e2)
                post == PostProcess(ri.inputTokens, ri.questionLen, ri.contextLen,
                                    startLogits, endLogits, decodeThrows)
            IN  ri' = [ri EXCEPT !.pc = "done",
                          !.startLogits = startLogits, !.endLogits = endLogits,
                          !.startProbs = post.startProbs,
                          !.endProbs = post.endProbs,
                          !.undesiredTokens = post.undesiredTokens,
                          !.bestSpan = post.bestSpan,
                          !.decoderRan = TRUE,
                          !.decodeCalled = post.decodeCalled,
                          !.decodedIds = post.decodedIds,
                          !.failure = IF post.result = Thrown
                                      THEN "decode" ELSE "none",
                          !.result = CatchSpan(post.result)]
    /\ UNCHANGED <<ds, qa, cs, tk, lg, cl>>

\* ------------------------- question answering: getInstance and init
\* qa.instance and qa.initPromise are the two statics (0 is undefined; an
\* instance is named by its construction number, a promise by its creation
\* number); qa.promises holds the state of each promise init() has returned,
\* qa.initPc the place the running init() is suspended at.
CallerIdle == [pc |-> "idle", kind |-> "none", promise |-> 0, value |-> 0,
               seen |-> "none"]

InitSingleton ==
    qa = [instance |-> 0, initPromise |-> 0, promises |-> <<>>,
          initPc |-> "none", onnxModel |-> "none",
          modelLoads |-> 0, tokenizerLoads |-> 0, created |-> 0,
          callers |-> [c \in Callers |-> CallerIdle]]

\* the state of the promise held in the static initPromise
InitPromiseState ==
    IF qa.initPromise = 0 THEN "unset" ELSE qa.promises[qa.initPromise]

StartsLoadInstanceOnly == qa.instance = 0

StartsLoadRetry == qa.instance = 0 /\ InitPromiseState \in {"unset", "rejected"}

\* getInstance reaches init()'s loads: `!TransformerOps.instance` and
\* `!TransformerOps.initPromise` in getInstance, `!TransformerOps.initPromise`
\* again in init()
StartsLoad == qa.instance = 0 /\ qa.initPromise = 0

\* what a getInstance() call sees, for the claims
SeenByCaller ==
    IF qa.instance # 0 THEN "instance" ELSE InitPromiseState

\* getInstance() by caller c, who then awaits the promise it returns
GetInstance(c) ==
    /\ qa.callers[c].pc = "idle"
    /\ qa' =
        IF StartsLoad
        THEN \* init() runs up to `await TransformerOps.loadOnnxModel()` and
             \* its promise is stored in initPromise and returned
             [qa EXCEPT !.promises = Append(@, "pending"),
                        !.initPromise = Len(qa.promises) + 1,
                        !.initPc = "loadOnnxModel",
                        !.modelLoads = @ + 1,
                        !.callers[c] = [pc |-> "awaiting", kind |-> "init",
                                        promise |-> Len(qa.promises) + 1,
                                        value |-> 0, seen |-> SeenByCaller]]
        ELSE IF qa.instance = 0
        THEN \* return TransformerOps.initPromise
             [qa EXCEPT !.callers[c] = [pc |-> "awaiting", kind |-> "init",
                                        promise |-> qa.initPromise,
                                        value |-> 0, seen |-> SeenByCaller]]
        ELSE \* return Promise.resolve(TransformerOps.instance)
             [qa EXCEPT !.callers[c] = [pc |-> "awaiting", kind |-> "resolve",
                                        promise |-> 0, value |-> qa.instance,
                                        seen |-> SeenByCaller]]
    /\ UNCHANGED <<ds, ri, cs, tk, lg, cl>>

\* loadOnnxModel() settles: init() throws out of its await, or goes on to
\* `await loadTokenizer()`
LoadOnnxModelSettle ==
    /\ qa.initPc = "loadOnnxModel"
    /\ \E outcome \in {"ok", "nothing", "rejects"} :
        qa' = IF outcome = "rejects"
              THEN [qa EXCEPT !.initPc = "done",
                              !.promises[Len(qa.promises)] = "rejected"]
              ELSE [qa EXCEPT !.initPc = "loadTokenizer",
                              !.onnxModel = outcome,
                              !.tokenizerLoads = @ + 1]
    /\ UNCHANGED <<ds, ri, cs, tk, lg, cl>>

\* loadTokenizer() settles: init() throws when either load gave nothing, and
\* otherwise constructs the instance, stores it and returns it
LoadTokenizerSettle ==
    /\ qa.initPc = "loadTokenizer"
    /\ \E outcome \in {"ok", "nothing", "rejects"} :
        qa' = IF outcome = "rejects" \/ outcome = "nothing" \/ qa.onnxModel = "nothing"
              THEN [qa EXCEPT !.initPc = "done",
                              !.promises[Len(qa.promises)] = "rejected"]
              ELSE [qa EXCEPT !.initPc = "done",
                              !.created = @ + 1,
                              !.instance = qa.created + 1,
                              !.promises[Len(qa.promises)] = "fulfilled"]
    /\ UNCHANGED <<ds, ri, cs, tk, lg, cl>>

\* the caller's `await TransformerOps.getInstance()` resumes once the promise
\* it holds has settled
CallerResume(c) ==
    /\ qa.callers[c].pc = "awaiting"
    /\ \/ /\ qa.callers[c].kind = "resolve"
          /\ qa' = [qa EXCEPT !.callers[c].pc = "resolved"]
       \/ /\ qa.callers[c].kind = "init"
          /\ qa.promises[qa.callers[c].promise] = "fulfilled"
          /\ qa' = [qa EXCEPT !.callers[c].pc = "resolved",
                              !.callers[c].value = qa.instance]
       \/ /\ qa.callers[c].kind = "init"
          /\ qa.promises[qa.callers[c].promise] = "rejected"
          /\ qa' = [qa EXCEPT !.callers[c].pc = "rejected"]
    /\ UNCHANGED <<ds, ri, cs, tk, lg, cl>>

\* ------------------------------------- classification: getInstance
\* every call is its own run of the async function, suspended at one of its
\* two awaits
InitClsSingleton ==
    cs = [instance |-> 0, modelLoads |-> 0, tokenizerLoads |-> 0, created |-> 0,
          callers |-> [c \in Callers |-> [pc |-> "idle", value |-> 0]]]

\* getInstance() by caller c up to `await TransformerOps.loadOnnixModel()`,
\* or to its return when the instance is set
ClsGetInstance(c) ==
    /\ cs.callers[c].pc = "idle"
    /\ cs' = IF cs.instance = 0
             THEN [cs EXCEPT !.modelLoads = @ + 1,
                             !.callers[c].pc = "loadOnnixModel"]
             ELSE [cs EXCEPT !.callers[c] = [pc |-> "resolved",
                                             value |-> cs.instance]]
    /\ UNCHANGED <<ds, ri, qa, tk, lg, cl>>

ClsLoadOnnixModelSettle(c) ==
    /\ cs.callers[c].pc = "loadOnnixModel"
    /\ \E rejects \in BOOLEAN :
        cs' = IF rejects
              THEN [cs EXCEPT !.callers[c].pc = "rejected"]
              ELSE [cs EXCEPT !.tokenizerLoads = @ + 1,
                              !.callers[c].pc = "loadTokenizer"]
    /\ UNCHANGED <<ds, ri, qa, tk, lg, cl>>

\* loadTokenizer() settles: the instance is constructed, stored in the static
\* and returned
ClsLoadTokenizerSettle(c) ==
    /\ cs.callers[c].pc = "loadTokenizer"
    /\ \E rejects \in BOOLEAN :
        cs' = IF rejects
              THEN [cs EXCEPT !.callers[c].pc = "rejected"]
              ELSE [cs EXCEPT !.created = @ + 1,
                              !.instance = cs.created + 1,
                              !.callers[c] = [pc |-> "resolved",
                                              value |-> cs.created + 1]]
    /\ UNCHANGED <<ds, ri, qa, tk, lg, cl>>

\* ---------------------------- input assembler: tokenizeQuestionAndContext
DefaultMaxLength == 512

\* tokens are pairs: <<"q", k>> and <<"c", k>> are the k-th token of the
\* question and of the context, <<"[CLS]", 0>>, <<"[SEP]", 0>> and
\* <<"[PAD]", 0>> the markers
WordTokens(kind, n) == [k \in 1..n |-> <<kind, k>>]

\* an option of the options object is <<v>> when given as v and << >> when
\* undefined; its value, or the default when it is undefined
OptionOr(option, default) == IF option = <<>> THEN default ELSE option[1]

\* arr.slice(0, end) for an integer end; a negative end counts from the tail
SliceFromZero(arr, end) ==
    IF end >= 0 THEN SubSeq(arr, 1, Min(end, Len(arr)))
    ELSE SubSeq(arr, 1, Len(arr) + end)

\* while (inputTokens.length < maxLength) inputTokens.push('[PAD]')
PadTo(tokens, maxLength) ==
    tokens \o [k \in 1..(maxLength - Len(tokens)) |-> <<"[PAD]", 0>>]

\* the function's locals when it returns; inputTokens is its return value
tokenizeQuestionAndContext(questionWords, contextWords, options) ==
    LET padding == OptionOr(options.padding, TRUE)
        truncation == OptionOr(options.truncation, TRUE)
        maxLength == OptionOr(options.maxLength, DefaultMaxLength)
        questionTokens == WordTokens("q", questionWords)
        contextTokens == WordTokens("c", contextWords)
        \* built from the untruncated tokens, before the truncation block
        inputTokens == <<(<<"[CLS]", 0>>)>> \o questionTokens \o <<(<<"[SEP]", 0>>)>>
                           \o contextTokens \o <<(<<"[SEP]", 0>>)>>
        totalLength == Len(questionTokens) + Len(contextTokens) + 3
        truncates == truncation /\ totalLength > maxLength
        questionLength == (maxLength - 3) \div 2
        contextLength == maxLength - 3 - questionLength
        \* options.maxLength || 512: 0 and undefined both give 512
        padLength == IF OptionOr(options.maxLength, 0) = 0
                     THEN DefaultMaxLength ELSE options.maxLength[1]
    IN  [questionTokens |-> IF truncates
                            THEN SliceFromZero(questionTokens, questionLength)
                            ELSE questionTokens,
         contextTokens |-> IF truncates
                           THEN SliceFromZero(contextTokens, contextLength)
                           ELSE contextTokens,
         inputTokens |-> IF padding THEN PadTo(inputTokens, padLength)
                         ELSE inputTokens]

InitTokenize ==
    tk = [called |-> FALSE, questionWords |-> 0, contextWords |-> 0,
          options |-> [padding |-> <<>>, truncation |-> <<>>,
                       maxLength |-> <<>>],
          questionTokens |-> <<>>, contextTokens |-> <<>>, inputTokens |-> <<>>]

\* one call of tokenizeQuestionAndContext
TokenizeCall ==
    /\ ~tk.called
    /\ \E questionWords \in 0..MaxWords, contextWords \in 0..MaxWords,
          padding \in {<<>>, <<TRUE>>, <<FALSE>>},
          truncation \in {<<>>, <<TRUE>>, <<FALSE>>},
          maxLength \in {<<>>} \cup {<<m>> : m \in 0..MaxMaxLength} :
        LET options == [padding |-> padding, truncation |-> truncation,
                        maxLength |-> maxLength]
            out == tokenizeQuestionAndContext(questionWords, contextWords, options)
        IN  tk' = [called |-> TRUE, questionWords |-> questionWords,
                   contextWords |-> contextWords, options |-> options,
                   questionTokens |-> out.questionTokens,
                   contextTokens |-> out.contextTokens,
                   inputTokens |-> out.inputTokens]
    /\ UNCHANGED <<ds, ri, qa, cs, lg, cl>>

\* ------------------------- the older runInference (TransformerOps.ts)
LegacyMinIndex == 6

\* try { ... } catch (error) { console.error(...); return null; }
CatchLegacy(outcome) == IF outcome = Thrown THEN Null ELSE outcome

\* the code after `await this.onnxModel.run(input)`: the candidates are the
\* (start, end) pairs of positions > 6 with start <= end, by descending
\* product of their probabilities; each of the first topk gives the answer
\* decode(inputs.slice(start - 1, end)), once per row of the batch
LegacyOptions(startProbs, endProbs) ==
    LET kept == SelectSeq([k \in 1..Len(startProbs) |-> k - 1],
                          LAMBDA i : i > LegacyMinIndex)
        product == [k \in 1..(Len(kept) * Len(kept)) |->
                       <<kept[((k - 1) \div Len(kept)) + 1],
                         kept[((k - 1) % Len(kept)) + 1]>>]
    IN  CHOOSE options \in
            {[k \in 1..Len(pairs) |->
                 pairs[SortKeysDescending(
                     [j \in 1..Len(pairs) |->
                         startProbs[pairs[j][1] + 1] * endProbs[pairs[j][2] + 1]]
                     \o <<>>)[k] + 1]] \o <<>> :
                pairs \in {SelectSeq(product, LAMBDA x : x[1] <= x[2])}} : TRUE

LegacyAnswers(inputs, topk, dims0, options, decodeThrows) ==
    LET taken == Min(Len(options), topk)
        answers == [k \in 1..taken |->
                       SubSeq(inputs, SliceBound(options[k][1] - 1) + 1,
                              Min(options[k][2], Len(inputs)))]
        toReturn == [k \in 1..(dims0 * taken) |-> answers[((k - 1) % taken) + 1]]
                        \o <<>>
    IN  [answers |-> dims0 * taken,
         result |-> IF dims0 > 0 /\ taken > 0 /\ decodeThrows THEN Thrown
                    ELSE IF topk = 1
                    THEN (IF dims0 * taken = 0 THEN Thrown  \* toReturn[0].answer
                          ELSE Decode(toReturn[1]))
                    ELSE [kind |-> "list", ids |-> toReturn]]

LegacyPostProcess(inputs, topk, dims0, startData, endData, decodeThrows) ==
    CHOOSE out \in
        {LegacyAnswers(inputs, topk, dims0, options, decodeThrows) :
            options \in {LegacyOptions(softmax(startData), softmax(endData))}} : TRUE

LgIdle == [pc |-> "idle", inputs |-> <<>>, topk |-> 1, postRan |-> FALSE,
           answers |-> 0, failure |-> "none", result |-> Pending]

InitLegacy == lg = LgIdle

\* runInference(question, topk) up to `await createModelInput(inputs)`
LegacyRunInference ==
    /\ lg.pc = "idle"
    /\ ~ds.called /\ ri.pc = "idle" /\ cl.pc = "idle"
    /\ \E questionLen \in 0..MaxQuestionTokens,
          contextLen \in 0..MaxLegacyContextTokens,
          topk \in 1..MaxTopk, tokenizeThrows \in BOOLEAN :
        lg' = IF tokenizeThrows
              THEN [lg EXCEPT !.pc = "done", !.topk = topk,
                              !.failure = "tokenize",
                              !.result = CatchLegacy(Thrown)]
              ELSE [lg EXCEPT !.pc = "createModelInput", !.topk = topk,
                              !.inputs = InputTokens(
                                  TokenizeQuestion(questionLen),
                                  TokenizeContext(contextLen))]
    /\ UNCHANGED <<ds, ri, qa, cs, tk, cl>>

LegacyCreateModelInputSettle ==
    /\ lg.pc = "createModelInput"
    /\ \E rejects \in BOOLEAN :
        lg' = IF rejects
              THEN [lg EXCEPT !.pc = "done", !.failure = "createModelInput",
                              !.result = CatchLegacy(Thrown)]
              ELSE [lg EXCEPT !.pc = "run"]
    /\ UNCHANGED <<ds, ri, qa, cs, tk, cl>>

\* onnxModel.run settles: it rejects, or its output lacks a tensor, or it
\* gives a batch of dims0 rows and the two logit vectors
LegacyModelRunSettle ==
    /\ lg.pc = "run"
    /\ \/ \E failure \in {"run", "no tensor"} :
            lg' = [lg EXCEPT !.pc = "done", !.failure = failure,
                             !.result = CatchLegacy(Thrown)]
       \/ \E s1, e1 \in 1..Len(lg.inputs), dims0 \in 0..MaxBatch,
             decodeThrows \in BOOLEAN :
            LET n == Len(lg.inputs)
                post == LegacyPostProcess(lg.inputs, lg.topk, dims0,
                                          PeakLogits(n, s1, s1),
                                          PeakLogits(n, e1, e1), decodeThrows)
            IN  lg' = [lg EXCEPT !.pc = "done", !.postRan = TRUE,
                          !.answers = post.answers,
                          !.failure = IF post.result = Thrown /\ post.answers > 0
                                      THEN "decode" ELSE "none",
                          !.result = CatchLegacy(post.result)]
    /\ UNCHANGED <<ds, ri, qa, cs, tk, cl>>

\* --------------------------------------- classification: runInference
IdToLabel == <<"travel", "career", "financial", "purchase", "sales">>

\* try { ... } catch (error) { console.error(...); return; }
CatchClassify(outcome) == IF outcome = Thrown THEN UndefinedResult ELSE outcome

\* softmax with reduce(..., 0): the empty array gives the empty array
softmaxClassify(logits) == IF Len(logits) = 0 THEN <<>> ELSE softmax(logits)

\* idToLabel[index]: undefined outside 0..4
LabelOf(index) ==
    IF index >= 0 /\ index < Len(IdToLabel)
    THEN [kind |-> "label", ids |-> <<IdToLabel[index + 1]>>]
    ELSE UndefinedResult

\* the code after `await this.onnixModel.run(onnxInput)`
ClassifyPostProcess(logitsArray) ==
    LET probabilities == softmaxClassify(logitsArray)
        predictedLabelIndex == IndexOf(probabilities, MathMax(probabilities))
    IN  [index |-> predictedLabelIndex, result |-> LabelOf(predictedLabelIndex)]

\* a logit vector with HighLogit at p1 and HighLogit - gap at p2
GapLogits(n, p1, p2, gap) ==
    [k \in 1..n |-> IF k = p1 THEN HighLogit
                    ELSE IF k = p2 THEN HighLogit - gap ELSE 0]

ClIdle == [pc |-> "idle", logits |-> <<>>, index |-> -1, postRan |-> FALSE,
           failure |-> "none", result |-> Pending]

InitClassify == cl = ClIdle

\* runInference(input) up to `await createModelInput(tokenizedInput)`; the
\* empty input returns undefined at once
ClassifyRunInference ==
    /\ cl.pc = "idle"
    /\ ~ds.called /\ ri.pc = "idle" /\ lg.pc = "idle"
    /\ \E inputEmpty \in BOOLEAN, tokenizeThrows \in BOOLEAN :
        cl' = IF inputEmpty
              THEN [cl EXCEPT !.pc = "done", !.result = UndefinedResult]
              ELSE IF tokenizeThrows
              THEN [cl EXCEPT !.pc = "done", !.failure = "tokenize",
                              !.result = CatchClassify(Thrown)]
              ELSE [cl EXCEPT !.pc = "createModelInput"]
    /\ UNCHANGED <<ds, ri, qa, cs, tk, lg>>

ClassifyCreateModelInputSettle ==
    /\ cl.pc = "createModelInput"
    /\ \E rejects \in BOOLEAN :
        cl' = IF rejects
              THEN [cl EXCEPT !.pc = "done", !.failure = "createModelInput",
                              !.result = CatchClassify(Thrown)]
              ELSE [cl EXCEPT !.pc = "run"]
    /\ UNCHANGED <<ds, ri, qa, cs, tk, lg>>

ClassifyModelRunSettle ==
    /\ cl.pc = "run"
    /\ \/ \E failure \in {"run", "no tensor"} :
            cl' = [cl EXCEPT !.pc = "done", !.failure = failure,
                             !.result = CatchClassify(Thrown)]
       \/ \E n \in 1..MaxClassLogits :
           \E p1, p2 \in 1..n, gap \in 0..1 :
            LET logits == GapLogits(n, p1, p2, gap)
                post == ClassifyPostProcess(logits)
            IN  cl' = [cl EXCEPT !.pc = "done", !.postRan = TRUE,
                          !.logits = logits, !.index = post.index,
                          !.result = CatchClassify(post.result)]
       \/ \* the model gives no logits at all
          cl' = [cl EXCEPT !.pc = "done", !.postRan = TRUE,
                     !.index = ClassifyPostProcess(<<>>).index,
                     !.result = CatchClassify(ClassifyPostProcess(<<>>).result)]
    /\ UNCHANGED <<ds, ri, qa, cs, tk, lg>>

Init ==
    /\ InitDecode /\ InitInfer /\ InitSingleton /\ InitClsSingleton
    /\ InitTokenize /\ InitLegacy /\ InitClassify

Next ==
    \/ DecodeSpansCall
    \/ RunInference
    \/ CreateModelInputSettle
    \/ ModelRunSettle

Spec == Init /\ [][Next]_vars

NextSingleton ==
    \/ \E c \in Callers : GetInstance(c)
    \/ LoadOnnxModelSettle
    \/ LoadTokenizerSettle
    \/ \E c \in Callers : CallerResume(c)

SpecSingleton == Init /\ [][NextSingleton]_vars

NextClsSingleton ==
    \/ \E c \in Callers : ClsGetInstance(c)
    \/ \E c \in Callers : ClsLoadOnnixModelSettle(c)
    \/ \E c \in Callers : ClsLoadTokenizerSettle(c)

SpecClsSingleton == Init /\ [][NextClsSingleton]_vars

NextTokenize == TokenizeCall

SpecTokenize == Init /\ [][NextTokenize]_vars

NextRun ==
    \/ RunInference
    \/ CreateModelInputSettle
    \/ ModelRunSettle
    \/ LegacyRunInference
    \/ LegacyCreateModelInputSettle
    \/ LegacyModelRunSettle
    \/ ClassifyRunInference
    \/ ClassifyCreateModelInputSettle
    \/ ClassifyModelRunSettle

SpecRun == Init /\ [][NextRun]_vars

\* ------------------------------------------- claims on the span decoder
\* what the claims call a valid pair, spelled out on JavaScript indices
ClaimValidPairs(n, maxAnswerLength, mask) ==
    {p \in (0..(n - 1)) \X (0..(n - 1)) :
        /\ p[2] >= p[1]
        /\ p[2] - p[1] < maxAnswerLength
        /\ mask[p[1] + 1] = 0
        /\ mask[p[2] + 1] = 0}

ClaimScore(startProbs, endProbs, p) == startProbs[p[1] + 1] * endProbs[p[2] + 1]

\* the valid pair of maximal score; among equals the lowest start, then the
\* lowest end
ClaimBestPair(startProbs, endProbs, maxAnswerLength, mask) ==
    LET valid == ClaimValidPairs(Len(startProbs), maxAnswerLength, mask)
        Score(p) == ClaimScore(startProbs, endProbs, p)
    IN  CHOOSE p \in valid : \A q \in valid :
            \/ Score(p) > Score(q)
            \/ /\ Score(p) = Score(q)
               /\ (p[1] < q[1] \/ (p[1] = q[1] /\ p[2] <= q[2]))

DsValidPairs == ClaimValidPairs(Len(ds.startProbs), ds.maxAnswerLength, ds.undesiredTokens)

RiValidPairs == ClaimValidPairs(Len(ri.inputTokens), RunMaxAnswerLength, ri.undesiredTokens)

\* C1: every (starts[k], ends[k]) that decodeSpans returns is a pair of
\* in-range indices with end >= start, end - start < maxAnswerLength and
\* neither endpoint marked undesired.
C1_ReturnedSpansValid ==
    ds.called =>
        \A k \in 1..Len(ds.result.starts) :
            <<ds.result.starts[k], ds.result.ends[k]>> \in DsValidPairs

\* C2: whenever the decoder yields a span in runInference, the ids handed to
\* tokenizer.decode are the inclusive slice inputTokens[s..e] without the CLS
\* and SEP ids, (s, e) being the highest-scoring valid pair.
C2_DecodedIdsAreBestSlice ==
    (ri.pc = "done" /\ ri.decodeCalled) =>
        LET best == ClaimBestPair(ri.startProbs, ri.endProbs,
                                  RunMaxAnswerLength, ri.undesiredTokens)
        IN  ri.decodedIds =
                SelectSeq(SubSeq(ri.inputTokens, best[1] + 1, best[2] + 1),
                          LAMBDA t : t \notin {CLS_INDEX, SEP_INDEX})

\* C6: with topk = 1 and a valid pair, the one returned span is the valid
\* pair of maximal score (lowest start, then lowest end among equals) and
\* its returned score is that product.
C6_Top1IsGlobalMax ==
    (ds.called /\ ds.topk = 1 /\ DsValidPairs # {}) =>
        LET best == ClaimBestPair(ds.startProbs, ds.endProbs,
                                  ds.maxAnswerLength, ds.undesiredTokens)
        IN  /\ ds.result.starts = <<best[1]>>
            /\ ds.result.ends = <<best[2]>>
            /\ ds.result.scores = <<ClaimScore(ds.startProbs, ds.endProbs, best)>>

\* C7: no returned candidate carries the -Infinity score or is a pair the
\* validity filter rejected, and min(topk, number of valid pairs) candidates
\* are returned.
C7_NoSentinelReturned ==
    ds.called =>
        /\ \A k \in 1..Len(ds.result.starts) :
              /\ ds.result.scores[k] # NegInf
              /\ ~(/\ ds.result.starts[k] \in 0..(Len(ds.startProbs) - 1)
                   /\ ds.result.ends[k] \in 0..(Len(ds.startProbs) - 1)
                   /\ <<ds.result.starts[k], ds.result.ends[k]>> \notin DsValidPairs)
        /\ Len(ds.result.starts) = Min(ds.topk, Cardinality(DsValidPairs))

\* C8: when every (start, end) pair is invalid, decodeSpans returns empty
\* starts, ends and scores for any topk, and runInference returns null.
C8_AllInvalidGivesEmpty ==
    /\ (ds.called /\ DsValidPairs = {}) => ds.result = NoSpans
    /\ (ri.pc = "done" /\ ri.decoderRan /\ RiValidPairs = {}) =>
           (ri.bestSpan = NoSpans /\ ri.result = Null)

\* runInference reached the decoder with every position masked, found no
\* span and returned null
C8_Witness ==
    /\ ri.pc = "done" /\ ri.decoderRan
    /\ RiValidPairs = {}
    /\ ri.bestSpan = NoSpans
    /\ ri.result = Null

\* ---------------------------------------------- claims on the singletons
\* C4: however the getInstance() calls interleave, loadOnnxModel and
\* loadTokenizer are each started at most once, every call made before
\* initialization completed holds the one promise init() returned, and every
\* call that resolves resolves to the one instance.
C4_SingleLoadSingleInstance ==
    /\ qa.modelLoads <= 1
    /\ qa.tokenizerLoads <= 1
    /\ qa.created <= 1
    /\ \A c \in Callers :
          /\ qa.callers[c].seen \in {"unset", "pending"} =>
                (qa.callers[c].kind = "init" /\ qa.callers[c].promise = 1)
          /\ qa.callers[c].pc = "resolved" =>
                (qa.instance # 0 /\ qa.callers[c].value = qa.instance)
          /\ qa.callers[c].pc = "rejected" => InitPromiseState = "rejected"

\* two calls made before initialization completed and one made after it all
\* resolved, after a single load
C4_Witness ==
    /\ qa.modelLoads = 1 /\ qa.tokenizerLoads = 1
    /\ \A c \in Callers : qa.callers[c].pc = "resolved"
    /\ \E a, b, c \in Callers :
          /\ qa.callers[a].seen = "unset"
          /\ qa.callers[b].seen = "pending"
          /\ qa.callers[c].seen = "instance"

FailedInit == InitPromiseState = "rejected"

\* C10: once an initialization attempt has failed, no later getInstance()
\* starts a load, every later call returns the same rejected promise, and the
\* static instance stays unset.
C10_FailedInitIsFinal ==
    [][FailedInit =>
          /\ FailedInit'
          /\ qa'.initPromise = qa.initPromise
          /\ qa'.instance = 0
          /\ qa'.modelLoads = qa.modelLoads
          /\ qa'.tokenizerLoads = qa.tokenizerLoads
          /\ \A c \in Callers :
                (qa.callers[c].pc = "idle" /\ qa'.callers[c].pc # "idle") =>
                    /\ qa'.callers[c].kind = "init"
                    /\ qa'.callers[c].promise = qa.initPromise]_vars

\* a call made after the failure was rejected with the failed promise
C10_Witness ==
    /\ FailedInit
    /\ qa.modelLoads = 1
    /\ \E c \in Callers :
          /\ qa.callers[c].seen = "rejected"
          /\ qa.callers[c].pc = "rejected"
          /\ qa.callers[c].promise = qa.initPromise

\* C9: in the classification variant, however the getInstance() calls
\* interleave, the model and the tokenizer are each loaded at most once and
\* all callers receive the same instance.
C9_ClsSingleLoadSingleInstance ==
    /\ cs.modelLoads <= 1
    /\ cs.tokenizerLoads <= 1
    /\ \A a, b \in Callers :
          (cs.callers[a].pc = "resolved" /\ cs.callers[b].pc = "resolved") =>
              cs.callers[a].value = cs.callers[b].value

\* ---------------------------------------- claim on the input assembler
TkTruncation ==
    IF tk.options.truncation = <<>> THEN TRUE ELSE tk.options.truncation[1]

TkMaxLength ==
    IF tk.options.maxLength = <<>> THEN DefaultMaxLength ELSE tk.options.maxLength[1]

\* the tokens of one kind in the returned sequence
TkReturned(kind) == SelectSeq(tk.inputTokens, LAMBDA t : t[1] = kind)

\* C5: with truncation enabled and questionTokens.length +
\* contextTokens.length + 3 > maxLength, the returned sequence has at most
\* maxLength tokens, at most floor((maxLength - 3) / 2) of them question
\* tokens and at most the remaining budget of them context tokens.
C5_TruncatedToMaxLength ==
    (tk.called /\ TkTruncation /\ tk.questionWords + tk.contextWords + 3 > TkMaxLength
        /\ TkMaxLength >= 3) =>
        /\ Len(tk.inputTokens) <= TkMaxLength
        /\ Len(TkReturned("q")) <= (TkMaxLength - 3) \div 2
        /\ Len(TkReturned("c")) <= TkMaxLength - 3 - ((TkMaxLength - 3) \div 2)

\* ------------------------------------------------ claim on runInference
\* no runInference rejects or leaves a throw uncaught, and a finished one
\* has resolved
RunsResolve ==
    /\ ri.result \notin {Rejected, Thrown}
    /\ lg.result \notin {Rejected, Thrown}
    /\ cl.result \notin {Rejected, Thrown}
    /\ ri.pc = "done" => ri.result # Pending
    /\ lg.pc = "done" => lg.result # Pending
    /\ cl.pc = "done" => cl.result # Pending

\* a failure of any stage resolves to null (undefined in the classification
\* variant)
FailuresGiveAbsent ==
    /\ ri.failure # "none" => ri.result = Null
    /\ lg.failure # "none" => lg.result = Null
    /\ cl.failure # "none" => cl.result = UndefinedResult

\* the span-task runInference found no span
RiNoCandidate == ri.pc = "done" /\ ri.decoderRan /\ ~ri.decodeCalled

\* the older runInference collected no answer
LgNoCandidate ==
    lg.pc = "done" /\ lg.postRan /\ lg.failure = "none" /\ lg.answers = 0

\* C3 as claimed: runInference never throws or rejects; any failure, and the
\* case of no answer candidate, resolve to an absent result.
C3_AbsentOnFailureOrNoCandidate ==
    /\ RunsResolve
    /\ FailuresGiveAbsent
    /\ RiNoCandidate => ri.result = Null
    /\ LgNoCandidate => lg.result = Null

\* C3 as amended: the same, but the runInference of TransformerOps.ts called
\* with topk other than 1 resolves, with no candidate, to the empty list.
C3_AbsentOrEmptyList ==
    /\ RunsResolve
    /\ FailuresGiveAbsent
    /\ RiNoCandidate => ri.result = Null
    /\ LgNoCandidate =>
          lg.result = IF lg.topk = 1 THEN Null
                      ELSE [kind |-> "list", ids |-> <<>>]

\* the last stage, tokenizer.decode, threw on a found span and runInference
\* resolved to null
C3_Witness ==
    /\ ri.pc = "done"
    /\ ri.decodeCalled
    /\ ri.failure = "decode"
    /\ ri.result = Null

\* ------------------------------------------ claim on the classification
\* the first JavaScript index of the greatest logit
ClaimArgmax(logits) ==
    (CHOOSE k \in 1..Len(logits) :
        /\ \A j \in 1..Len(logits) : logits[j] <= logits[k]
        /\ \A j \in 1..(k - 1) : logits[j] < logits[k]) - 1

ClaimLabels ==
    [k \in 0..4 |-> CASE k = 0 -> "travel" [] k = 1 -> "career"
                      [] k = 2 -> "financial" [] k = 3 -> "purchase"
                      [] OTHER -> "sales"]

\* the classification runInference got five logits from the model
ClFiveLogits == cl.pc = "done" /\ cl.postRan /\ Len(cl.logits) = 5

DsSomeUnmasked == \E k \in 1..Len(ds.undesiredTokens) : ds.undesiredTokens[k] = 0

\* C12: with topk >= 1 and maxAnswerLength >= 1, decodeSpans returns a
\* non-empty starts list whenever some position is not marked undesired; and
\* runInference returns null for "no valid answer" only when the question
\* and the context both tokenize to nothing.
C12_NonEmptyUnlessAllMasked ==
    /\ (ds.called /\ ds.topk >= 1 /\ ds.maxAnswerLength >= 1 /\ DsSomeUnmasked) =>
           Len(ds.result.starts) > 0
    /\ RiNoCandidate => (ri.questionLen = 0 /\ ri.contextLen = 0)
    /\ (ri.pc = "done" /\ ri.decoderRan /\ ri.questionLen + ri.contextLen > 0) =>
           (ri.decodeCalled /\ Len(ri.bestSpan.starts) > 0)

\* decodeSpans was asked for more spans than the one unmasked position of
\* two allows and returned a non-empty list
C12_Witness ==
    /\ ds.called /\ ds.topk > 1 /\ ds.maxAnswerLength >= 1
    /\ Len(ds.undesiredTokens) = 2
    /\ ds.undesiredTokens[1] = 1 /\ ds.undesiredTokens[2] = 0
    /\ Len(ds.result.starts) = 1
====
